---- MODULE Spec2Model ----
(***************************************************************************)
(* TTK_StatTestIA (src/TTK_StatTestIA/app.py): a Streamlit script.  Every  *)
(* user interaction re-executes the script from its first line in a fresh  *)
(* namespace: the model loading block (lines 59-72) runs first, then the   *)
(* sidebar radio (line 78) selects exactly one of the five screen branches.*)
(* Only st.session_state and the file on disk survive from one run to the  *)
(* next.  A run ends normally, by st.stop(), or by an uncaught exception,  *)
(* which the script runner displays in place of the rest of the screen.    *)
(*                                                                         *)
(* Floats returned by library routines are fixed-point integers that may   *)
(* also be NaN: correlation and p in hundredths, prob in whole percent.    *)
(***************************************************************************)
EXTENDS Integers, Sequences, FiniteSets, TLC

VARIABLES artifact,       \* what is stored at MODEL_FILE on disk
          session_state,  \* st.session_state: the "df" slot
          pc,             \* "idle" between runs, "route" after the load block
          menu,           \* the sidebar radio selection of the current run
          bound,          \* names bound by the load block in this run
          model, encoders, FEATURES, STATS, model_loaded,
          uploaded_file, xcol, ycol, ysel, chart_type, correlation,
          var1, var2, test, p, prob, user_input, pressed,
          out,            \* elements rendered by the current run, in order
          calls,          \* library routines invoked by the current run
          status,         \* how the last run ended
          prev_caught     \* screen on which the previous run caught an error

vars == <<artifact, session_state, pc, menu, bound, model, encoders, FEATURES,
          STATS, model_loaded, uploaded_file, xcol, ycol, ysel, chart_type,
          correlation, var1, var2, test, p, prob, user_input, pressed, out,
          calls, status, prev_caught>>

-----------------------------------------------------------------------------
(* Values *)

Float(v) == [nan |-> FALSE, v |-> v]
NaN == [nan |-> TRUE, v |-> 0]
\* Python float comparison: every comparison with NaN is False
Lt(x, c) == ~x.nan /\ x.v < c
Gt(x, c) == ~x.nan /\ x.v > c

NoFunc == [k \in {} |-> {}]

Menus == {"Accueil", "Importer", "Visualisations", "Tests", "Prediction"}

\* --- datasets: ordered columns, each with a name and a dtype
Col(n, num) == [name |-> n, numeric |-> num]
NoDf == [present |-> FALSE, cols |-> <<>>]
Df(cols) == [present |-> TRUE, cols |-> cols]

Tables ==
  { <<Col("Age", TRUE), Col("Glucose", TRUE)>>,
    <<Col("Age", TRUE), Col("Sexe", FALSE)>>,
    <<Col("Glucose", TRUE), Col("Aucune", TRUE)>>,
    <<Col("Sexe", FALSE)>> }

\* --- uploaded files: a name suffix, the real format of the bytes, the table
Files ==
  [suffix : {".csv", ".CSV", ".xlsx"}, format : {"csv", "xlsx"}, table : Tables]
NoFile == [suffix |-> "", format |-> "", table |-> <<>>]

\* --- model artifacts
NumStat == [type |-> "numeric", classes |-> {}]
CatStat(cls) == [type |-> "categorical", classes |-> cls]

PayloadFull ==
  [k \in {"model", "encoders", "features", "stats"} |->
     CASE k = "model"    -> "clf"
       [] k = "encoders" -> [c \in {"Smoker"} |-> {"yes", "no"}]
       [] k = "features" -> <<"Age", "Smoker">>
       [] k = "stats"    -> [f \in {"Age", "Smoker"} |->
                               IF f = "Age" THEN NumStat
                               ELSE CatStat({"yes", "no", "maybe"})]]

PayloadNoEnc ==
  [k \in {"model", "features", "stats"} |->
     CASE k = "model"    -> "clf2"
       [] k = "features" -> <<"Glucose">>
       [] k = "stats"    -> [f \in {"Glucose"} |-> NumStat]]

Restrict(f, S) == [k \in S |-> f[k]]

Artifacts ==
  { [file |-> "missing", payload |-> NoFunc],
    [file |-> "corrupt", payload |-> NoFunc],
    [file |-> "ok", payload |-> PayloadFull],
    [file |-> "ok", payload |-> PayloadNoEnc],
    [file |-> "ok", payload |-> Restrict(PayloadFull, {"model", "encoders", "features"})],
    [file |-> "ok", payload |-> Restrict(PayloadFull, {"model", "encoders", "stats"})],
    [file |-> "ok", payload |-> Restrict(PayloadFull, {"encoders", "features", "stats"})] }

\* results a library routine can return
RValues == {Float(v) : v \in -100..100} \cup {NaN}
PValues == {Float(v) : v \in 0..100} \cup {NaN}
ProbValues == {Float(v) : v \in 0..100}

-----------------------------------------------------------------------------
(* Model loading block, lines 59-72 *)

MODEL_FILE == "model.pkl"

Unbound == [raised |-> FALSE, bound |-> {}, model |-> "unbound",
            encoders |-> NoFunc, FEATURES |-> <<>>, STATS |-> NoFunc,
            model_loaded |-> FALSE]

\* the except FileNotFoundError branch, lines 67-72
OnFileNotFound ==
  [Unbound EXCEPT !.bound = {"model_loaded", "model", "encoders", "FEATURES", "STATS"},
                  !.model = "None"]

\* faulty variant: the handler catches every exception, not only FileNotFoundError
LoadModelCatchAll(a) ==
  IF a.file # "ok" \/ {"model", "features", "stats"} \ DOMAIN a.payload # {}
  THEN OnFileNotFound
  ELSE [raised |-> FALSE,
        bound |-> {"model_loaded", "model", "encoders", "FEATURES", "STATS"},
        model |-> a.payload["model"],
        encoders |-> IF "encoders" \in DOMAIN a.payload
                     THEN a.payload["encoders"] ELSE NoFunc,
        FEATURES |-> a.payload["features"],
        STATS |-> a.payload["stats"],
        model_loaded |-> TRUE]

\* The names the try block binds before it leaves, and how it leaves:
\* joblib.load raises FileNotFoundError for a missing file and another
\* exception for an unreadable one; payload["k"] raises KeyError for a
\* missing key, payload.get("encoders", {}) never raises.
LoadModel(a) ==
  IF a.file = "missing" THEN OnFileNotFound
  ELSE IF a.file # "ok" THEN [Unbound EXCEPT !.raised = TRUE]
  ELSE LET pl == a.payload
           s1 == [Unbound EXCEPT !.raised = TRUE]
           s2 == [s1 EXCEPT !.model = pl["model"], !.bound = {"model"}]
           s3 == [s2 EXCEPT !.encoders = IF "encoders" \in DOMAIN pl
                                         THEN pl["encoders"] ELSE NoFunc,
                            !.bound = @ \cup {"encoders"}]
           s4 == [s3 EXCEPT !.FEATURES = pl["features"],
                            !.bound = @ \cup {"FEATURES"}]
           s5 == [s4 EXCEPT !.STATS = pl["stats"], !.bound = @ \cup {"STATS"}]
       IN  IF "model" \notin DOMAIN pl THEN s1
           ELSE IF "features" \notin DOMAIN pl THEN s3
           ELSE IF "stats" \notin DOMAIN pl THEN s4
           ELSE [s5 EXCEPT !.model_loaded = TRUE, !.raised = FALSE,
                           !.bound = @ \cup {"model_loaded"}]

-----------------------------------------------------------------------------
(* State *)

NoWidgets ==
  /\ uploaded_file' = NoFile
  /\ xcol' = "" /\ ycol' = "" /\ ysel' = 0 /\ chart_type' = ""
  /\ correlation' = NaN
  /\ var1' = "" /\ var2' = "" /\ test' = "" /\ p' = NaN
  /\ prob' = NaN /\ user_input' = NoFunc
  /\ pressed' = FALSE

Init ==
  /\ artifact \in Artifacts
  /\ session_state = NoDf
  /\ pc = "idle"
  /\ menu = "Accueil"
  /\ bound = {}
  /\ model = "unbound" /\ encoders = NoFunc /\ FEATURES = <<>>
  /\ STATS = NoFunc /\ model_loaded = FALSE
  /\ uploaded_file = NoFile
  /\ xcol = "" /\ ycol = "" /\ ysel = 0 /\ chart_type = ""
  /\ correlation = NaN
  /\ var1 = "" /\ var2 = "" /\ test = "" /\ p = NaN
  /\ prob = NaN /\ user_input = NoFunc
  /\ pressed = FALSE
  /\ out = <<>> /\ calls = <<>>
  /\ status = "none"
  /\ prev_caught = ""

\* the file at MODEL_FILE is created, deleted or rewritten between two runs
ArtifactChange ==
  /\ pc = "idle"
  /\ \E a \in Artifacts \ {artifact} : artifact' = a
  /\ UNCHANGED <<session_state, pc, menu, bound, model, encoders, FEATURES,
                 STATS, model_loaded, uploaded_file, xcol, ycol, ysel,
                 chart_type, correlation, var1, var2, test, p, prob,
                 user_input, pressed, out, calls, status, prev_caught>>

\* A user interaction starts a run: the script executes from the top in a
\* fresh namespace, runs the load block, and reads the sidebar radio.
StartRun ==
  /\ pc = "idle"
  /\ LET r == LoadModel(artifact) IN
       /\ bound' = r.bound
       /\ model' = r.model /\ encoders' = r.encoders
       /\ FEATURES' = r.FEATURES /\ STATS' = r.STATS
       /\ model_loaded' = r.model_loaded
       /\ calls' = <<"joblib.load">>
       /\ IF r.raised
          THEN /\ pc' = "idle" /\ status' = "aborted"
               /\ out' = <<"exception">>
               /\ menu' = menu
          ELSE /\ pc' = "route" /\ status' = "running"
               /\ out' = <<>>
               /\ \E m \in Menus : menu' = m
  /\ prev_caught' = IF status = "complete" /\ "error_caught" \in {out[i] : i \in DOMAIN out}
                    THEN menu ELSE ""
  /\ NoWidgets
  /\ UNCHANGED <<artifact, session_state>>

Elems(s) == {s[i] : i \in DOMAIN s}

Finish(o, st) == /\ out' = o /\ status' = st /\ pc' = "idle"

BundleUnchanged ==
  UNCHANGED <<bound, model, encoders, FEATURES, STATS, model_loaded>>

\* faulty variant: no try/except around the button's body, the exception escapes
Reraise(head) == Finish(head \o <<"exception">>, "aborted")

\* lines 201-202 and 250-251: except Exception as e: st.error(...); the run
\* continues after the try statement and reaches the end of the script
CatchError(head) == Finish(head \o <<"error_caught">>, "complete")

ImportWidgets == <<uploaded_file>>
VisuWidgets == <<xcol, ycol, ysel, chart_type, correlation>>
TestWidgets == <<var1, var2, test, p>>
PredictWidgets == <<prob, user_input>>

-----------------------------------------------------------------------------
(* Home screen, lines 83-98 *)

RenderHome ==
  /\ pc = "route" /\ menu = "Accueil"
  /\ Finish(<<"home">>, "complete")
  /\ BundleUnchanged
  /\ UNCHANGED <<artifact, session_state, menu, calls, prev_caught, pressed,
                 ImportWidgets, VisuWidgets, TestWidgets, PredictWidgets>>

-----------------------------------------------------------------------------
(* Import screen, lines 103-110 *)

\* line 107: the reader is chosen by uploaded_file.name.endswith(".csv")
Reader(f) == IF f.suffix = ".csv" THEN "pd.read_csv" ELSE "pd.read_excel"

\* a reader raises on bytes that are not in its format
ParseOk(f) ==
  \/ Reader(f) = "pd.read_csv" /\ f.format = "csv"
  \/ Reader(f) = "pd.read_excel" /\ f.format = "xlsx"

\* faulty variant: the slot is cleared when the parse fails
ImportStoreClearing(store, f) == IF ParseOk(f) THEN Df(f.table) ELSE NoDf

\* lines 107-108: the "df" slot after the branch has run on file f; the
\* assignment is reached only when the reader returned
ImportStore(store, f) == IF ParseOk(f) THEN Df(f.table) ELSE store

RenderImport ==
  /\ pc = "route" /\ menu = "Importer"
  /\ \E f \in Files \cup {NoFile} :
       /\ uploaded_file' = f
       /\ IF f = NoFile
          THEN /\ Finish(<<"header", "file_uploader">>, "complete")
               /\ UNCHANGED <<session_state, calls>>
          ELSE /\ calls' = Append(calls, Reader(f))
               /\ session_state' = ImportStore(session_state, f)
               /\ IF ParseOk(f)
                  THEN Finish(<<"header", "file_uploader", "success_import",
                                "dataframe_head">>, "complete")
                  ELSE Finish(<<"header", "file_uploader", "exception">>,
                              "aborted")
  /\ BundleUnchanged
  /\ UNCHANGED <<artifact, menu, prev_caught, pressed,
                 VisuWidgets, TestWidgets, PredictWidgets>>

-----------------------------------------------------------------------------
(* Visualize screen, lines 115-160 *)

ChartTypes == {"Histogramme", "Boite a moustaches", "Nuage de points",
               "Diagramme circulaire"}

Names(cols) == [i \in DOMAIN cols |-> cols[i].name]

\* line 123: the options of the Y selector
YOptions(cols) == <<"Aucune">> \o Names(cols)

IsNumeric(cols, n) == \E i \in DOMAIN cols : cols[i].name = n /\ cols[i].numeric

\* faulty variant: the thresholds are not strict
ScatterInterpretationNonStrict(r) ==
  IF ~r.nan /\ r.v >= 50 THEN "interp_positive"
  ELSE IF ~r.nan /\ r.v <= -50 THEN "interp_negative"
  ELSE "interp_none"

\* lines 144-149, correlation in hundredths
ScatterInterpretation(r) ==
  IF Gt(r, 50) THEN "interp_positive"
  ELSE IF Lt(r, -50) THEN "interp_negative"
  ELSE "interp_none"

\* lines 139-141: the guard that stops the scatter branch
ScatterHalts(y) == y = "Aucune"

VisuHead == <<"header", "selectbox_x", "selectbox_y", "selectbox_chart",
              "color_picker">>

RenderVisualize ==
  /\ pc = "route" /\ menu = "Visualisations"
  /\ LET cols == session_state.cols IN
     IF ~session_state.present
     THEN /\ Finish(<<"header", "warning_no_data">>, "complete")
          /\ UNCHANGED <<calls, VisuWidgets>>
     ELSE \E xi \in DOMAIN cols, yi \in DOMAIN YOptions(cols), ct \in ChartTypes :
            LET x == Names(cols)[xi]
                y == YOptions(cols)[yi]
            IN
            /\ xcol' = x /\ ycol' = y /\ ysel' = yi /\ chart_type' = ct
            /\ \/ /\ ct = "Histogramme"
                  /\ calls' = Append(calls, "px.histogram")
                  /\ correlation' = correlation
                  /\ Finish(VisuHead \o <<"plotly_chart", "interp_histogram">>,
                            "complete")
               \/ /\ ct = "Boite a moustaches"
                  /\ calls' = calls \o <<"px.box", "quantile">>
                  /\ correlation' = correlation
                  /\ IF IsNumeric(cols, x)
                     THEN Finish(VisuHead \o <<"plotly_chart", "interp_box">>,
                                 "complete")
                     ELSE Finish(VisuHead \o <<"exception">>, "aborted")
               \/ /\ ct = "Nuage de points"
                  /\ ScatterHalts(y)
                  /\ calls' = calls
                  /\ correlation' = correlation
                  /\ Finish(VisuHead \o <<"warning_choose_y">>, "stopped")
               \/ /\ ct = "Nuage de points"
                  /\ ~ScatterHalts(y)
                  /\ calls' = calls \o <<"px.scatter", "corr">>
                  /\ IF IsNumeric(cols, x) /\ IsNumeric(cols, y)
                     THEN \E r \in RValues :
                            /\ correlation' = r
                            /\ Finish(VisuHead \o <<"plotly_chart",
                                        ScatterInterpretation(r)>>, "complete")
                     ELSE /\ correlation' = correlation
                          /\ Finish(VisuHead \o <<"exception">>, "aborted")
               \/ /\ ct = "Diagramme circulaire"
                  /\ calls' = calls \o <<"value_counts", "px.pie">>
                  /\ correlation' = correlation
                  /\ Finish(VisuHead \o <<"plotly_chart", "interp_pie">>,
                            "complete")
  /\ BundleUnchanged
  /\ UNCHANGED <<artifact, session_state, menu, prev_caught, pressed,
                 ImportWidgets, TestWidgets, PredictWidgets>>

-----------------------------------------------------------------------------
(* Tests screen, lines 165-202 *)

TestNames == {"Mann-Whitney", "Wilcoxon", "Kruskal-Wallis", "Spearman"}

\* lines 183-194: the routine each selection dispatches to
Routine(t) ==
  CASE t = "Mann-Whitney"   -> "stats.mannwhitneyu"
    [] t = "Wilcoxon"       -> "stats.wilcoxon"
    [] t = "Kruskal-Wallis" -> "stats.kruskal"
    [] OTHER                -> "stats.spearmanr"

\* line 172: df.select_dtypes(include=np.number).columns
NumCols(cols) == SelectSeq(cols, LAMBDA c : c.numeric)

\* faulty variant: p = 0.05 counts as significant
VerdictInclusive(pv) ==
  IF ~pv.nan /\ pv.v <= 5 THEN "info_significant" ELSE "warning_not_significant"

\* lines 197-200, p in hundredths
Verdict(pv) ==
  IF Lt(pv, 5) THEN "info_significant" ELSE "warning_not_significant"

TestHead == <<"header", "selectbox_A", "selectbox_B", "selectbox_test",
              "button_run">>

RenderTests ==
  /\ pc = "route" /\ menu = "Tests"
  /\ LET num_cols == NumCols(session_state.cols) IN
     IF ~session_state.present
     THEN /\ Finish(<<"header", "warning_no_data">>, "complete")
          /\ UNCHANGED <<calls, pressed, TestWidgets>>
     ELSE IF Len(num_cols) < 2
     THEN /\ Finish(<<"header", "warning_two_numeric">>, "complete")
          /\ UNCHANGED <<calls, pressed, TestWidgets>>
     ELSE \E a \in DOMAIN num_cols, b \in DOMAIN num_cols, t \in TestNames,
             click \in BOOLEAN :
            /\ var1' = num_cols[a].name /\ var2' = num_cols[b].name
            /\ test' = t /\ pressed' = click
            /\ IF ~click
               THEN /\ Finish(TestHead, "complete")
                    /\ UNCHANGED <<calls, p>>
               ELSE /\ calls' = Append(calls, Routine(t))
                    /\ \/ \* the routine raises: except Exception, line 201
                          /\ p' = p
                          /\ CatchError(TestHead)
                       \/ \E pv \in PValues :
                            /\ p' = pv
                            /\ Finish(TestHead \o <<"success_stat", Verdict(pv)>>,
                                      "complete")
  /\ BundleUnchanged
  /\ UNCHANGED <<artifact, session_state, menu, prev_caught,
                 ImportWidgets, VisuWidgets, PredictWidgets>>

-----------------------------------------------------------------------------
(* Predict screen, lines 207-251 *)

\* lines 236-238: the gauge's colour steps
GaugeSteps == << [lo |-> 0,  hi |-> 30,  color |-> "#BEE6FF"],
                 [lo |-> 30, hi |-> 70,  color |-> "#FDDC6B"],
                 [lo |-> 70, hi |-> 100, color |-> "#FF9A9A"] >>

\* faulty variant: the boundaries fall in the lower band
RiskVerdictInclusive(pr) ==
  IF ~pr.nan /\ pr.v <= 30 THEN "success_low"
  ELSE IF ~pr.nan /\ pr.v <= 70 THEN "warning_moderate"
  ELSE "error_high"

\* lines 243-248, prob in percent
RiskVerdict(pr) ==
  IF Lt(pr, 30) THEN "success_low"
  ELSE IF Lt(pr, 70) THEN "warning_moderate"
  ELSE "error_high"

FeatSet == {FEATURES[i] : i \in DOMAIN FEATURES}

\* lines 216-222: the values the widget of feature f can return
WidgetValues(f) ==
  IF f \in DOMAIN STATS /\ STATS[f].type = "categorical"
  THEN STATS[f].classes
  ELSE {"number"}

\* lines 227-229: the encoders that are applied to the input row
Encoded == DOMAIN encoders \cap FeatSet

\* LabelEncoder.transform raises ValueError on a label it has not seen
EncodeOk(ui) == \A c \in Encoded : ui[c] \in encoders[c]

\* faulty variant: the screen does not check the flag
PredictDisabledNever(loaded) == FALSE

\* lines 210-212: the guard that disables the screen
PredictDisabled(loaded) == ~loaded

PredictHead ==
  <<"header", "write_inputs">> \o [i \in DOMAIN FEATURES |-> "input_widget"]
    \o <<"button_predict">>

RenderPredict ==
  /\ pc = "route" /\ menu = "Prediction"
  /\ IF PredictDisabled(model_loaded)
     THEN /\ Finish(<<"header", "error_model_missing">>, "stopped")
          /\ UNCHANGED <<calls, pressed, PredictWidgets>>
     ELSE \E ui \in [FeatSet -> UNION {WidgetValues(f) : f \in FeatSet}],
             click \in BOOLEAN :
            /\ \A f \in FeatSet : ui[f] \in WidgetValues(f)
            /\ user_input' = ui /\ pressed' = click
            /\ IF ~click
               THEN /\ Finish(PredictHead, "complete")
                    /\ UNCHANGED <<calls, prob>>
               ELSE LET enc == [i \in 1..Cardinality(Encoded) |-> "le.transform"]
                    IN
                    \/ \* an encoder raises on an unseen label
                       /\ ~EncodeOk(ui)
                       /\ calls' = calls \o enc
                       /\ prob' = prob
                       /\ CatchError(PredictHead)
                    \/ \* predict_proba raises
                       /\ EncodeOk(ui)
                       /\ calls' = calls \o enc \o <<"predict_proba">>
                       /\ prob' = prob
                       /\ CatchError(PredictHead)
                    \/ /\ EncodeOk(ui)
                       /\ calls' = calls \o enc \o <<"predict_proba">>
                       /\ \E pr \in ProbValues :
                            /\ prob' = pr
                            /\ Finish(PredictHead \o <<"plotly_chart",
                                        RiskVerdict(pr)>>, "complete")
  /\ BundleUnchanged
  /\ UNCHANGED <<artifact, session_state, menu, prev_caught,
                 ImportWidgets, VisuWidgets, TestWidgets>>

-----------------------------------------------------------------------------

Next ==
  \/ ArtifactChange
  \/ StartRun
  \/ RenderHome
  \/ RenderImport
  \/ RenderVisualize
  \/ RenderTests
  \/ RenderPredict

Spec == Init /\ [][Next]_vars

-----------------------------------------------------------------------------
(* Properties *)

AllNames == {"model_loaded", "model", "encoders", "FEATURES", "STATS"}
Count(s, S) == Cardinality({i \in DOMAIN s : s[i] \in S})
Shown(e) == e \in Elems(out)
Called(c) == c \in Elems(calls)
\* the run that just ended reached the screen m
Ended(m) == pc = "idle" /\ menu = m /\ status \in {"complete", "stopped"}

\* C1: on the Import screen with an uploaded file, a failed parse ends the run
\* with the exception displayed and the "df" slot as it was before; a
\* successful parse leaves the parsed table in the slot and shows its head.
C1_ImportOutcome ==
  [][ (pc = "route" /\ menu = "Importer" /\ uploaded_file' # NoFile) =>
        LET f == uploaded_file'
            failed == \/ f.suffix = ".csv" /\ f.format # "csv"
                      \/ f.suffix # ".csv" /\ f.format # "xlsx"
        IN  IF failed
            THEN /\ session_state' = session_state
                 /\ "exception" \in Elems(out')
                 /\ "success_import" \notin Elems(out')
                 /\ "dataframe_head" \notin Elems(out')
            ELSE /\ session_state' = [present |-> TRUE, cols |-> f.table]
                 /\ "dataframe_head" \in Elems(out')
                 /\ "exception" \notin Elems(out')
                 /\ status' = "complete" ]_vars

\* a parse failed while a dataset was stored, and the dataset is still there
C1_Witness ==
  /\ menu = "Importer" /\ status = "aborted" /\ Shown("exception")
  /\ uploaded_file # NoFile
  /\ session_state.present /\ session_state.cols # uploaded_file.table

\* C2: every prob in 0..100 gets exactly one risk verdict: low below 30,
\* moderate from 30 to below 70, high from 70 on; the verdict's thresholds
\* are the boundaries of the gauge's colour steps.
C2_RiskBanding ==
  (Ended("Prediction") /\ Shown("plotly_chart")) =>
     /\ ~prob.nan /\ prob.v \in 0..100
     /\ Count(out, {"success_low", "warning_moderate", "error_high"}) = 1
     /\ Shown("success_low") <=> prob.v < 30
     /\ Shown("warning_moderate") <=> (30 =< prob.v /\ prob.v < 70)
     /\ Shown("error_high") <=> prob.v >= 70
     /\ Shown("success_low") <=>
          (GaugeSteps[1].lo =< prob.v /\ prob.v < GaugeSteps[1].hi)
     /\ Shown("warning_moderate") <=>
          (GaugeSteps[2].lo =< prob.v /\ prob.v < GaugeSteps[2].hi)
     /\ Shown("error_high") <=>
          (GaugeSteps[3].lo =< prob.v /\ prob.v =< GaugeSteps[3].hi)

\* the boundary 30 is rendered as moderate risk
C2_Witness ==
  Ended("Prediction") /\ prob = Float(30) /\ Shown("warning_moderate")

\* C3: a rendered scatter carries exactly one interpretation: positive iff
\* r > 0.5, negative iff r < -0.5, inconclusive for every other r (0.5, -0.5
\* and NaN included).
C3_ScatterInterpretation ==
  (Ended("Visualisations") /\ chart_type = "Nuage de points"
     /\ status = "complete") =>
     /\ Count(out, {"interp_positive", "interp_negative", "interp_none"}) = 1
     /\ Shown("interp_positive") <=> (~correlation.nan /\ correlation.v > 50)
     /\ Shown("interp_negative") <=> (~correlation.nan /\ correlation.v < -50)
     /\ Shown("interp_none") <=>
          (correlation.nan \/ (-50 =< correlation.v /\ correlation.v =< 50))

\* r = 0.5 is rendered as inconclusive
C3_Witness ==
  /\ Ended("Visualisations") /\ chart_type = "Nuage de points"
  /\ correlation = Float(50) /\ Shown("interp_none")

\* C4: for each of the four tests, a run that reports a p-value shows exactly
\* one verdict, "significant" iff p < 0.05.
C4_Significance ==
  (Ended("Tests") /\ Shown("success_stat")) =>
     /\ test \in TestNames /\ Called(Routine(test))
     /\ Count(out, {"info_significant", "warning_not_significant"}) = 1
     /\ Shown("info_significant") <=> (~p.nan /\ p.v < 5)
     /\ Shown("warning_not_significant") <=> ~(~p.nan /\ p.v < 5)

\* p = 0.05 is rendered as not significant
C4_Witness ==
  /\ Ended("Tests") /\ test = "Spearman" /\ p = Float(5)
  /\ Shown("warning_not_significant")

\* C5: a scatter render halts with the warning and shows no chart iff the Y
\* selector is left on its first entry (nothing selected); selecting any
\* column of the dataset never halts.
C5_ScatterHaltsIffNoY ==
  (pc = "idle" /\ menu = "Visualisations" /\ chart_type = "Nuage de points"
     /\ status \in {"complete", "stopped", "aborted"}) =>
     /\ (status = "stopped" /\ Shown("warning_choose_y")
           /\ ~Shown("plotly_chart")) <=> (ysel = 1)
     /\ (ysel = 1) => ~Shown("plotly_chart")

\* the artifact is present, readable, and has every required field
WellFormed(a) ==
  a.file = "ok" /\ {"model", "features", "stats"} \subseteq DOMAIN a.payload

\* C6: the load block ends with loaded = false and an empty bundle on a
\* missing artifact, with loaded = true and the artifact's feature list on a
\* well-formed one, and aborts the run before any screen on every other
\* artifact; a screen never runs on a partially bound bundle.
C6_ModelLoader ==
  /\ [][ (pc = "idle" /\ artifact' = artifact) =>
           /\ artifact.file = "missing" =>
                /\ pc' = "route" /\ model_loaded' = FALSE /\ model' = "None"
                /\ encoders' = NoFunc /\ FEATURES' = <<>> /\ STATS' = NoFunc
           /\ WellFormed(artifact) =>
                /\ pc' = "route" /\ model_loaded' = TRUE
                /\ FEATURES' = artifact.payload["features"]
           /\ (artifact.file # "missing" /\ ~WellFormed(artifact)) =>
                /\ pc' = "idle" /\ status' = "aborted"
                /\ out' = <<"exception">> ]_vars
  /\ [](pc = "route" => bound = AllNames)
  /\ [](model_loaded => bound = AllNames)

\* the load block left on a KeyError for "stats" with three names bound
C6_Witness ==
  /\ status = "aborted" /\ pc = "idle"
  /\ bound = {"model", "encoders", "FEATURES"} /\ ~model_loaded

\* C7: a Predict run with loaded = false shows only the instructional error
\* and stops, with no input widget, no button, no encoder and no classifier
\* call; the classifier is called only with loaded = true, on the Predict
\* screen, after the button was pressed.
C7_PredictGuard ==
  /\ (Ended("Prediction") /\ ~model_loaded) =>
        /\ status = "stopped"
        /\ out = <<"header", "error_model_missing">>
        /\ ~Called("predict_proba") /\ ~Called("le.transform")
  /\ Called("predict_proba") =>
        model_loaded /\ menu = "Prediction" /\ pressed

\* the Predict screen was opened without a model and stopped
C7_Witness ==
  /\ Ended("Prediction") /\ ~model_loaded /\ artifact.file = "missing"
  /\ Shown("error_model_missing")

Verdicts == {"info_significant", "warning_not_significant", "success_low",
             "warning_moderate", "error_high"}

\* C8: once the run or predict button is pressed the run always completes:
\* it shows either the caught error or a verdict, never both, never an
\* uncaught exception; an unseen label always ends in the caught error; the
\* step that catches the error changes neither the "df" slot nor the bundle.
C8_CaughtErrors ==
  /\ []( (pc = "idle" /\ menu \in {"Tests", "Prediction"} /\ pressed) =>
           /\ status = "complete"
           /\ ~Shown("exception")
           /\ Shown("error_caught") <=> Count(out, Verdicts) = 0
           /\ (menu = "Prediction" /\
                 \E c \in DOMAIN encoders \cap DOMAIN user_input :
                    user_input[c] \notin encoders[c]) => Shown("error_caught") )
  /\ [][ "error_caught" \in Elems(out') =>
           /\ session_state' = session_state
           /\ <<model, encoders, FEATURES, STATS, model_loaded>>'
                = <<model, encoders, FEATURES, STATS, model_loaded>> ]_vars

\* a test run reports a verdict right after a run on the same screen that
\* caught an error
C8_Witness ==
  /\ Ended("Tests") /\ prev_caught = "Tests" /\ pressed
  /\ Count(out, Verdicts) = 1

\* C9: once a load has bound the bundle, the loaded flag, FEATURES, STATS and
\* encoders that a later run binds are the same values, whatever happened to
\* the artifact in between.
C9_LoadedOnce ==
  [][ (bound = AllNames /\ bound' = AllNames) =>
        <<model_loaded, FEATURES, STATS, encoders>>'
          = <<model_loaded, FEATURES, STATS, encoders>> ]_vars

\* C10: the "df" slot is absent or one imported table, and it changes only in
\* an Import run that parsed a file; every other step leaves it as it was.
C10_StoreWrittenByImportOnly ==
  /\ [](session_state = NoDf \/
          (session_state.present /\ session_state.cols \in Tables))
  /\ [][ session_state' # session_state =>
           /\ pc = "route" /\ menu = "Importer"
           /\ uploaded_file' # NoFile
           /\ "success_import" \in Elems(out')
           /\ session_state' = [present |-> TRUE, cols |-> uploaded_file'.table]
       ]_vars

\* a stored dataset survived a test run that caught an error
C10_Witness ==
  /\ Ended("Tests") /\ Shown("error_caught") /\ session_state.present

====
